---- MODULE Spec2Model ----
(***************************************************************************)
(* Transaction ledger, monthly statement and payout simulation of the      *)
(* stripe_management app: the Transaction and MonthlyStatement tables, the *)
(* import_stripe_csv, generate_monthly_statement and calculate_payouts     *)
(* management commands.  Money is integer cents.  A timestamp is a number  *)
(* of ticks; a day has TicksPerDay ticks and a month DaysPerMonth days.    *)
(***************************************************************************)
EXTENDS Integers, Sequences, FiniteSets, TLC

\* ------------------------------------------------------------------ bounds
TicksPerDay == 2
DaysPerMonth == 2
MaxTxns == 2
MaxCharges == 3
MaxCalls == 2
MaxRuns == 2
MaxRunCharges == 2

\* ------------------------------------------------------------------ tables
\* transactions, statements: the Transaction and MonthlyStatement tables, in row
\* order.  statement_run: what the last generate_monthly_statement printed.
\* payout_run: what the last calculate_payouts printed.  last_op: the command
\* that ran last and, for import_stripe_csv, the count it printed.  calls:
\* commands run so far.  view_run: what the last request of the statement
\* page rendered.
VARIABLES transactions, statements, statement_run, payout_run, last_op, calls, runs,
          view_run

vars == <<transactions, statements, statement_run, payout_run, last_op, calls, runs, view_run>>

\* StripeAccount rows (name, unique account_id).
StripeAccounts ==
    { [name |-> "CGGE Media", account_id |-> "cgge"],
      [name |-> "Krystal Institute", account_id |-> "krystal_institute"] }

NoAccount == [name |-> "", account_id |-> ""]

\* ------------------------------------------------------------------ time
\* datetime(year, month, day) at tick t of the day, counted from 2025-01-01.
Tick(year, month, day, t) ==
    ((((year - 2025) * 12 + (month - 1)) * DaysPerMonth + (day - 1)) * TicksPerDay) + t

\* start_date = datetime(year, month, 1)
StartDate(year, month) == Tick(year, month, 1, 0)

\* end_date = datetime(year, month, last_day, 23, 59, 59)
EndDate(year, month) == Tick(year, month, DaysPerMonth, TicksPerDay - 1)

\* ------------------------------------------------------------------ queries
\* Transaction.objects.filter(stripe_id=...).exists()
StripeIdExists(rows, stripe_id) == \E i \in 1..Len(rows) : rows[i].stripe_id = stripe_id

RECURSIVE InsertByCreated(_, _)
\* ORDER BY stripe_created names no second key: rows with equal timestamps
\* come back in table (row id) order.
InsertByCreated(sorted, txn) ==
    IF sorted = <<>> THEN <<txn>>
    ELSE IF Head(sorted).stripe_created <= txn.stripe_created
         THEN <<Head(sorted)>> \o InsertByCreated(Tail(sorted), txn)
         ELSE <<txn>> \o sorted

RECURSIVE OrderByCreated(_)
OrderByCreated(rows) ==
    IF rows = <<>> THEN <<>>
    ELSE InsertByCreated(OrderByCreated(SubSeq(rows, 1, Len(rows) - 1)), rows[Len(rows)])

\* The month's transactions of one account, ascending by stripe_created.
MonthTransactions(rows, account_id, year, month) ==
    OrderByCreated(SelectSeq(rows, LAMBDA t :
        /\ t.account = account_id
        /\ t.stripe_created >= StartDate(year, month)
        /\ t.stripe_created <= EndDate(year, month)))

\* StripeAccount.objects.get(name=...), then get(account_id=...).
AccountByNameOrId(account_name) ==
    IF \E a \in StripeAccounts : a.name = account_name
    THEN CHOOSE a \in StripeAccounts : a.name = account_name
    ELSE IF \E a \in StripeAccounts : a.account_id = account_name
         THEN CHOOSE a \in StripeAccounts : a.account_id = account_name
         ELSE NoAccount

\* ------------------------------------------------------------------ ledger
\* Two-decimal amounts h/100 up to 10.00 for which int(float(h/100) * 100) is h - 1.
TruncatedHundredths ==
    {29, 57, 58, 113, 114, 115, 116, 201, 203, 205, 207, 226, 228, 230, 232, 251, 253, 255,
     402, 406, 410, 414, 427, 431, 435, 439, 452, 456, 460, 464, 477, 481, 485, 489,
     502, 506, 510, 803, 804, 812, 820, 828, 829, 837, 845, 853, 854, 862, 870, 878,
     879, 887, 895, 903, 904, 912, 920, 928, 929, 937, 945, 953, 954, 962, 970, 978,
     979, 987, 995}

\* int(x * 100) for the float x nearest to h/100: opening_balance_cents of
\* generate_monthly_statement, amount and fee of import_stripe_csv.
IntOfFloatTimes100(h) ==
    IF h >= 0 /\ h \in TruncatedHundredths THEN h - 1
    ELSE IF h < 0 /\ (0 - h) \in TruncatedHundredths THEN h + 1
    ELSE h

Line(nature, debit, credit, balance, stripe_id) ==
    [nature |-> nature, debit |-> debit, credit |-> credit, balance |-> balance,
     stripe_id |-> stripe_id]

\* PrimaryLine with a refund entered as a debit that adds to the balance.
PrimaryLineRefundAsDebit(txn, running_balance) ==
    IF txn.type = "charge" /\ txn.status = "succeeded"
    THEN Line("Gross Payment", txn.amount, 0, running_balance + txn.amount, txn.stripe_id)
    ELSE IF txn.type = "refund"
    THEN Line("Refund", txn.amount, 0, running_balance + txn.amount, txn.stripe_id)
    ELSE IF txn.type = "payout"
    THEN Line("Payout", 0, txn.amount, running_balance - txn.amount, txn.stripe_id)
    ELSE Line("", 0, 0, running_balance, txn.stripe_id)

\* The line of the transaction itself and the balance after it.
PrimaryLine(txn, running_balance) ==
    IF txn.type = "charge" /\ txn.status = "succeeded"
    THEN Line("Gross Payment", txn.amount, 0, running_balance + txn.amount, txn.stripe_id)
    ELSE IF txn.type = "refund"
    THEN Line("Refund", 0, txn.amount, running_balance - txn.amount, txn.stripe_id)
    ELSE IF txn.type = "payout"
    THEN Line("Payout", 0, txn.amount, running_balance - txn.amount, txn.stripe_id)
    ELSE Line("", 0, 0, running_balance, txn.stripe_id)

\* FeeLines with the fee credited on a line whose balance stays where it was.
FeeLinesBalanceKept(txn, running_balance) ==
    IF txn.fee # 0 /\ txn.fee > 0
    THEN <<Line("Processing Fee", 0, txn.fee, running_balance, txn.stripe_id)>>
    ELSE <<>>

\* if txn.fee and txn.fee > 0: the fee line, after the primary line.
FeeLines(txn, running_balance) ==
    IF txn.fee # 0 /\ txn.fee > 0
    THEN <<Line("Processing Fee", 0, txn.fee, running_balance - txn.fee, txn.stripe_id)>>
    ELSE <<>>

EmptyLedger(opening_balance_cents) ==
    [running_balance |-> opening_balance_cents,
     total_gross_payments |-> 0, total_fees |-> 0, total_payouts |-> 0,
     total_refunds |-> 0, transaction_lines |-> <<>>]

\* LedgerStep with the fee taken off the balance but left out of total_fees.
LedgerStepFeeNotTotalled(acc, txn) ==
    LET line == PrimaryLine(txn, acc.running_balance)
        fees == FeeLines(txn, line.balance)
    IN  [running_balance |-> IF fees = <<>> THEN line.balance ELSE fees[1].balance,
         total_gross_payments |->
             acc.total_gross_payments + (IF line.nature = "Gross Payment" THEN txn.amount ELSE 0),
         total_fees |-> acc.total_fees,
         total_payouts |->
             acc.total_payouts + (IF line.nature = "Payout" THEN txn.amount ELSE 0),
         total_refunds |->
             acc.total_refunds + (IF line.nature = "Refund" THEN txn.amount ELSE 0),
         transaction_lines |-> acc.transaction_lines \o <<line>> \o fees]

\* One pass of "for txn in transactions".
LedgerStep(acc, txn) ==
    LET line == PrimaryLine(txn, acc.running_balance)
        fees == FeeLines(txn, line.balance)
    IN  [running_balance |-> IF fees = <<>> THEN line.balance ELSE fees[1].balance,
         total_gross_payments |->
             acc.total_gross_payments + (IF line.nature = "Gross Payment" THEN txn.amount ELSE 0),
         total_fees |-> acc.total_fees + (IF fees = <<>> THEN 0 ELSE txn.fee),
         total_payouts |->
             acc.total_payouts + (IF line.nature = "Payout" THEN txn.amount ELSE 0),
         total_refunds |->
             acc.total_refunds + (IF line.nature = "Refund" THEN txn.amount ELSE 0),
         transaction_lines |-> acc.transaction_lines \o <<line>> \o fees]

RECURSIVE BuildLedger(_, _)
BuildLedger(acc, txns) ==
    IF txns = <<>> THEN acc ELSE BuildLedger(LedgerStep(acc, Head(txns)), Tail(txns))

\* PrintedLedger that prints no closing line for a month without transactions.
PrintedLedgerNoCarryForward(opening_balance_cents, ledger) ==
    <<Line("Opening Balance", 0, 0, opening_balance_cents, <<>>)>>
        \o ledger.transaction_lines
        \o (IF ledger.transaction_lines = <<>> THEN <<>>
            ELSE <<Line("Closing Balance", 0, 0, ledger.running_balance, <<>>)>>)

\* The printed statement table: opening line, transaction lines, closing line.
PrintedLedger(opening_balance_cents, ledger) ==
    <<Line("Opening Balance", 0, 0, opening_balance_cents, <<>>)>>
        \o ledger.transaction_lines
        \o <<Line("Closing Balance", 0, 0, ledger.running_balance, <<>>)>>

\* ------------------------------------------------------------------ statements
\* NULL in reconciled_at, reconciled_by and notes of a MonthlyStatement.
NullTime == 0 - 1

NullUser == ""

NullText == <<>>

\* UpdateOrCreate as a plain create: a new row on every call.
CreateOnly(rows, account_id, year, month, defaults) ==
    Append(rows,
        [account |-> account_id, year |-> year, month |-> month,
         opening_balance |-> defaults.opening_balance,
         closing_balance |-> defaults.closing_balance,
         total_charges |-> defaults.total_charges,
         total_refunds |-> defaults.total_refunds,
         total_fees |-> defaults.total_fees,
         total_payouts |-> defaults.total_payouts,
         is_reconciled |-> FALSE, reconciled_at |-> NullTime, reconciled_by |-> NullUser,
         notes |-> NullText])

\* UpdateOrCreate as get_or_create: a row that exists keeps its values.
GetOrCreate(rows, account_id, year, month, defaults) ==
    IF \E i \in 1..Len(rows) :
           rows[i].account = account_id /\ rows[i].year = year /\ rows[i].month = month
    THEN rows
    ELSE CreateOnly(rows, account_id, year, month, defaults)

\* UpdateOrCreate that saves the row it finds as a fresh, unreconciled one.
UpdateOrCreateUnreconciling(rows, account_id, year, month, defaults) ==
    IF \E i \in 1..Len(rows) :
           rows[i].account = account_id /\ rows[i].year = year /\ rows[i].month = month
    THEN [i \in 1..Len(rows) |->
             IF rows[i].account = account_id /\ rows[i].year = year /\ rows[i].month = month
             THEN [rows[i] EXCEPT !.opening_balance = defaults.opening_balance,
                                  !.closing_balance = defaults.closing_balance,
                                  !.total_charges = defaults.total_charges,
                                  !.total_refunds = defaults.total_refunds,
                                  !.total_fees = defaults.total_fees,
                                  !.total_payouts = defaults.total_payouts,
                                  !.is_reconciled = FALSE,
                                  !.reconciled_at = NullTime,
                                  !.reconciled_by = NullUser]
             ELSE rows[i]]
    ELSE CreateOnly(rows, account_id, year, month, defaults)

\* MonthlyStatement.objects.update_or_create(account, year, month, defaults).
UpdateOrCreate(rows, account_id, year, month, defaults) ==
    IF \E i \in 1..Len(rows) :
           rows[i].account = account_id /\ rows[i].year = year /\ rows[i].month = month
    THEN [i \in 1..Len(rows) |->
             IF rows[i].account = account_id /\ rows[i].year = year /\ rows[i].month = month
             THEN [rows[i] EXCEPT !.opening_balance = defaults.opening_balance,
                                  !.closing_balance = defaults.closing_balance,
                                  !.total_charges = defaults.total_charges,
                                  !.total_refunds = defaults.total_refunds,
                                  !.total_fees = defaults.total_fees,
                                  !.total_payouts = defaults.total_payouts]
             ELSE rows[i]]
    ELSE Append(rows,
             [account |-> account_id, year |-> year, month |-> month,
              opening_balance |-> defaults.opening_balance,
              closing_balance |-> defaults.closing_balance,
              total_charges |-> defaults.total_charges,
              total_refunds |-> defaults.total_refunds,
              total_fees |-> defaults.total_fees,
              total_payouts |-> defaults.total_payouts,
              is_reconciled |-> FALSE, reconciled_at |-> NullTime,
              reconciled_by |-> NullUser, notes |-> NullText])

\* The defaults handed to update_or_create.
StatementDefaults(opening_balance_cents, ledger) ==
    [opening_balance |-> opening_balance_cents,
     closing_balance |-> ledger.running_balance,
     total_charges |-> ledger.total_gross_payments,
     total_refunds |-> ledger.total_refunds,
     total_fees |-> ledger.total_fees,
     total_payouts |-> ledger.total_payouts]

NoStatementRun ==
    [account_name |-> "", account |-> "", year |-> 0, month |-> 0, found |-> FALSE,
     txn_count |-> 0, opening_balance |-> 0, closing_balance |-> 0, lines |-> <<>>,
     action |-> "", repeat |-> FALSE, chained |-> FALSE]

\* The month before (year, month).
PreviousPeriod(year, month) ==
    IF month > 1 THEN <<year, month - 1>> ELSE <<year - 1, 12>>

\* generate_monthly_statement: Command.handle.  opening_balance is the
\* --opening-balance option in hundredths.  (Each \E binds one value: the
\* account row, the opening balance in cents, the rows read and the ledger.
\* repeat records that the command before was the same call; chained, that the
\* option is the closing balance saved for the month before.)
GenerateStatement(account_name, year, month, opening_balance) ==
    /\ calls < MaxCalls
    /\ \E account \in {AccountByNameOrId(account_name)} :
       \E opening_balance_cents \in {IntOfFloatTimes100(opening_balance)} :
       \E txns \in {MonthTransactions(transactions, account.account_id, year, month)} :
       \E ledger \in {BuildLedger(EmptyLedger(opening_balance_cents), txns)} :
           /\ calls' = calls + 1
           /\ last_op' = "generate_monthly_statement"
           /\ IF account = NoAccount
              THEN /\ statements' = statements
                   /\ statement_run' = [NoStatementRun EXCEPT !.account_name = account_name,
                                                              !.year = year, !.month = month]
              ELSE /\ statements' = UpdateOrCreate(statements, account.account_id, year, month,
                                        StatementDefaults(opening_balance_cents, ledger))
                   /\ statement_run' =
                          [account_name |-> account_name,
                           account |-> account.account_id, year |-> year, month |-> month,
                           found |-> TRUE, txn_count |-> Len(txns),
                           opening_balance |-> opening_balance_cents,
                           closing_balance |-> ledger.running_balance,
                           lines |-> PrintedLedger(opening_balance_cents, ledger),
                           action |-> IF Len(statements') > Len(statements)
                                      THEN "Created" ELSE "Updated",
                           repeat |-> /\ last_op = "generate_monthly_statement"
                                      /\ statement_run.found
                                      /\ statement_run.account = account.account_id
                                      /\ statement_run.year = year
                                      /\ statement_run.month = month
                                      /\ statement_run.opening_balance = opening_balance_cents,
                           chained |->
                               \E i \in 1..Len(statements) :
                                   /\ statements[i].account = account.account_id
                                   /\ <<statements[i].year, statements[i].month>>
                                          = PreviousPeriod(year, month)
                                   /\ statements[i].closing_balance = opening_balance]
           /\ UNCHANGED <<transactions, payout_run, runs, view_run>>

\* The command ends by printing "--opening-balance {closing_balance/100:.2f}"
\* for the next month: the call that follows that advice.
ChainStatement ==
    /\ statement_run.found
    /\ statement_run.month < 12
    /\ GenerateStatement(statement_run.account_name, statement_run.year,
                         statement_run.month + 1, statement_run.closing_balance)

\* ------------------------------------------------------------------ payouts
\* payout_id = f"po_sim_{year}{month:02d}_{account.account_id}_{number:03d}":
\* one string per (year, month, account_id, number).
PayoutId(year, month, account_id, number) == <<"po_sim", year, month, account_id, number>>

\* The month's succeeded charges of one account, ascending by stripe_created.
MonthCharges(rows, account_id, year, month) ==
    OrderByCreated(SelectSeq(rows, LAMBDA t :
        /\ t.account = account_id
        /\ t.stripe_created >= StartDate(year, month)
        /\ t.stripe_created <= EndDate(year, month)
        /\ t.type = "charge"
        /\ t.status = "succeeded"))

\* AccountByName falling back to an account when the name is unknown.
AccountByNameOrAny(account_name) ==
    IF \E a \in StripeAccounts : a.name = account_name
    THEN CHOOSE a \in StripeAccounts : a.name = account_name
    ELSE CHOOSE a \in StripeAccounts : TRUE

\* StripeAccount.objects.get(name=account_name)
AccountByName(account_name) ==
    IF \E a \in StripeAccounts : a.name = account_name
    THEN CHOOSE a \in StripeAccounts : a.name = account_name
    ELSE NoAccount

\* payout_cutoff_date: 23:59:59 of the cutoff day; no day (None or 0), no date.
HasCutoff(payout_cutoff_day) == payout_cutoff_day # 0

PayoutCutoffDate(year, month, payout_cutoff_day) ==
    Tick(year, month, payout_cutoff_day, TicksPerDay - 1)

\* ShouldCreatePayout with the cutoff taken at the end of the month.
ShouldCreateUntilMonthEnd(year, month, payout_cutoff_day, charge_date) ==
    \/ ~HasCutoff(payout_cutoff_day)
    \/ charge_date <= EndDate(year, month)

\* should_create_payout
ShouldCreatePayout(year, month, payout_cutoff_day, charge_date) ==
    \/ ~HasCutoff(payout_cutoff_day)
    \/ charge_date <= PayoutCutoffDate(year, month, payout_cutoff_day)

\* ThresholdReached with > for >=.
ThresholdExceeded(running_balance, threshold_cents) == running_balance > threshold_cents

\* running_balance >= threshold_cents
ThresholdReached(running_balance, threshold_cents) == running_balance >= threshold_cents

EmptySimulation ==
    [running_balance |-> 0, payouts_to_create |-> <<>>, payout_number |-> 1, trace |-> <<>>]

\* SimulationStep that pays out the threshold and drops what was above it.
SimulationStepPayingThreshold(acc, charge, year, month, threshold_cents, payout_cutoff_day) ==
    LET balance == acc.running_balance + charge.amount
                       - (IF charge.fee # 0 THEN charge.fee ELSE 0)
        reached == ThresholdReached(balance, threshold_cents)
        create == reached /\ ShouldCreatePayout(year, month, payout_cutoff_day,
                                                charge.stripe_created)
        entry == [stripe_id |-> charge.stripe_id, amount |-> charge.amount,
                  fee |-> charge.fee, date |-> charge.stripe_created,
                  balance |-> balance,
                  decision |-> IF create THEN "PAYOUT"
                               ELSE IF reached THEN "PAYOUT SKIPPED (after cutoff)"
                               ELSE ""]
    IN  [running_balance |-> IF create THEN 0 ELSE balance,
         payouts_to_create |->
             IF create
             THEN Append(acc.payouts_to_create,
                      [date |-> charge.stripe_created + TicksPerDay,
                       amount |-> threshold_cents, number |-> acc.payout_number])
             ELSE acc.payouts_to_create,
         payout_number |-> IF create THEN acc.payout_number + 1 ELSE acc.payout_number,
         trace |-> Append(acc.trace, entry)]

\* One pass of "for charge in charges"; trace keeps what the pass printed.
SimulationStep(acc, charge, year, month, threshold_cents, payout_cutoff_day) ==
    LET balance == acc.running_balance + charge.amount
                       - (IF charge.fee # 0 THEN charge.fee ELSE 0)
        reached == ThresholdReached(balance, threshold_cents)
        create == reached /\ ShouldCreatePayout(year, month, payout_cutoff_day,
                                                charge.stripe_created)
        entry == [stripe_id |-> charge.stripe_id, amount |-> charge.amount,
                  fee |-> charge.fee, date |-> charge.stripe_created,
                  balance |-> balance,
                  decision |-> IF create THEN "PAYOUT"
                               ELSE IF reached THEN "PAYOUT SKIPPED (after cutoff)"
                               ELSE ""]
    IN  [running_balance |-> IF create THEN 0 ELSE balance,
         payouts_to_create |->
             IF create
             THEN Append(acc.payouts_to_create,
                      [date |-> charge.stripe_created + TicksPerDay,
                       amount |-> balance, number |-> acc.payout_number])
             ELSE acc.payouts_to_create,
         payout_number |-> IF create THEN acc.payout_number + 1 ELSE acc.payout_number,
         trace |-> Append(acc.trace, entry)]

RECURSIVE Simulate(_, _, _, _, _, _)
Simulate(acc, charges, year, month, threshold_cents, payout_cutoff_day) ==
    IF charges = <<>> THEN acc
    ELSE Simulate(SimulationStep(acc, Head(charges), year, month, threshold_cents,
                                 payout_cutoff_day),
                  Tail(charges), year, month, threshold_cents, payout_cutoff_day)

\* PayoutTransaction dated at the scheduled day less one day: the day of the charge.
PayoutTransactionOnChargeDay(payout, account_id, year, month) ==
    [stripe_id |-> PayoutId(year, month, account_id, payout.number),
     account |-> account_id, amount |-> payout.amount, fee |-> 0,
     status |-> "succeeded", type |-> "payout", stripe_created |-> payout.date - TicksPerDay]

\* The row Transaction.objects.create(...) inserts for a scheduled payout.
PayoutTransaction(payout, account_id, year, month) ==
    [stripe_id |-> PayoutId(year, month, account_id, payout.number),
     account |-> account_id, amount |-> payout.amount, fee |-> 0,
     status |-> "succeeded", type |-> "payout", stripe_created |-> payout.date]

\* AlreadyExists without the lookup: every payout is taken for new.
NeverExists(rows, payout_id) == FALSE

\* if Transaction.objects.filter(stripe_id=payout_id).exists(): ... continue
AlreadyExists(rows, payout_id) == StripeIdExists(rows, payout_id)

\* EmptyCreation that first deletes the synthetic payouts written by earlier runs.
EmptyCreationCleared(rows) ==
    [rows |-> SelectSeq(rows, LAMBDA t : t.stripe_id[1] # "po_sim"),
     created |-> <<>>, skipped |-> <<>>, raised |-> FALSE]

EmptyCreation(rows) == [rows |-> rows, created |-> <<>>, skipped |-> <<>>, raised |-> FALSE]

\* One pass of "for payout in payouts_to_create".  stripe_id is unique in the
\* table: an insert of an identifier in use raises IntegrityError and ends the command.
CreationStep(acc, payout, account_id, year, month) ==
    LET row == PayoutTransaction(payout, account_id, year, month) IN
    IF acc.raised THEN acc
    ELSE IF AlreadyExists(acc.rows, row.stripe_id)
    THEN [acc EXCEPT !.skipped = Append(@, row.stripe_id)]
    ELSE IF StripeIdExists(acc.rows, row.stripe_id)
    THEN [acc EXCEPT !.raised = TRUE]
    ELSE [acc EXCEPT !.rows = Append(@, row), !.created = Append(@, row.stripe_id)]

RECURSIVE CreatePayouts(_, _, _, _, _)
CreatePayouts(acc, payouts, account_id, year, month) ==
    IF payouts = <<>> THEN acc
    ELSE CreatePayouts(CreationStep(acc, Head(payouts), account_id, year, month),
                       Tail(payouts), account_id, year, month)

\* CreationEnabled without the dry-run test.
CreationAlways(dry_run, payouts_to_create) == payouts_to_create # <<>>

\* if not dry_run and payouts_to_create:
CreationEnabled(dry_run, payouts_to_create) == ~dry_run /\ payouts_to_create # <<>>

NoPayoutRun ==
    [account_name |-> "", account |-> "", year |-> 0, month |-> 0, threshold_cents |-> 0,
     payout_cutoff_day |-> 0, dry_run |-> FALSE, found |-> FALSE, charges |-> 0,
     trace |-> <<>>, payouts_to_create |-> <<>>, remaining_balance |-> 0,
     created |-> <<>>, skipped |-> <<>>, raised |-> FALSE, repeat |-> FALSE,
     same_inputs |-> FALSE]

\* calculate_payouts: Command.handle.  (Each \E binds one value: the account
\* row, the charges read, the simulation and the rows after the creation loop.
\* same_inputs records that the command before was a call for the same
\* account, month, threshold and cutoff; repeat, that it also had the same
\* dry_run.)
SimulatePayouts(account_name, year, month, payout_threshold, payout_cutoff_day, dry_run) ==
    /\ calls < MaxCalls
    /\ \E account \in {AccountByName(account_name)} :
       \E threshold_cents \in {IntOfFloatTimes100(payout_threshold)} :
       \E charges \in {MonthCharges(transactions, account.account_id, year, month)} :
       \E sim \in {Simulate(EmptySimulation, charges, year, month, threshold_cents,
                            payout_cutoff_day)} :
       \E made \in {IF CreationEnabled(dry_run, sim.payouts_to_create)
                     THEN CreatePayouts(EmptyCreation(transactions), sim.payouts_to_create,
                                        account.account_id, year, month)
                     ELSE EmptyCreation(transactions)} :
       \E same \in {/\ last_op = "calculate_payouts"
                    /\ payout_run.found
                    /\ payout_run.account = account.account_id
                    /\ payout_run.year = year
                    /\ payout_run.month = month
                    /\ payout_run.threshold_cents = threshold_cents
                    /\ payout_run.payout_cutoff_day = payout_cutoff_day} :
       \E args \in {[NoPayoutRun EXCEPT !.account_name = account_name,
                                        !.year = year, !.month = month,
                                        !.threshold_cents = threshold_cents,
                                        !.payout_cutoff_day = payout_cutoff_day,
                                        !.dry_run = dry_run,
                                        !.same_inputs = same,
                                        !.repeat = same /\ payout_run.dry_run = dry_run]} :
           /\ calls' = calls + 1
           /\ last_op' = "calculate_payouts"
           /\ IF account = NoAccount
              THEN /\ transactions' = transactions
                   /\ payout_run' = args
              ELSE IF charges = <<>>
              THEN /\ transactions' = transactions
                   /\ payout_run' = [args EXCEPT !.account = account.account_id,
                                                 !.found = TRUE]
              ELSE /\ transactions' = made.rows
                   /\ payout_run' =
                          [args EXCEPT !.account = account.account_id, !.found = TRUE,
                                       !.charges = Len(charges), !.trace = sim.trace,
                                       !.payouts_to_create = sim.payouts_to_create,
                                       !.remaining_balance = sim.running_balance,
                                       !.created = made.created, !.skipped = made.skipped,
                                       !.raised = made.raised]
           /\ UNCHANGED <<statements, statement_run, runs, view_run>>

\* ------------------------------------------------------------------ runs
\* calculate_payouts as the processes that execute it: each slot is one
\* invocation of the command, which reads the charges and computes the schedule,
\* then for every scheduled payout looks the identifier up and, if it is absent,
\* inserts the row.  The lookup and the insert are two statements of the
\* database (autocommit, no transaction around the loop), so other processes
\* run between them, and the process can be terminated at any point.
RunSlots == 1..MaxRuns

\* store and overlap are history: the table the run read at its start, and
\* whether another run was in its creation loop at any time this one was.
NoRun ==
    [pc |-> "idle", account |-> "", year |-> 0, month |-> 0, threshold_cents |-> 0,
     payout_cutoff_day |-> 0, dry_run |-> FALSE, payouts_to_create |-> <<>>,
     index |-> 0, created |-> <<>>, skipped |-> <<>>, store |-> <<>>, overlap |-> FALSE]

\* The run is inside "for payout in payouts_to_create".
InCreationLoop(run) == run.pc \in {"checking", "creating"}

\* End of one pass of the loop: the next payout, or the summary and exit.
NextPayout(run) ==
    [run EXCEPT !.index = @ + 1,
                !.pc = IF run.index + 1 > Len(run.payouts_to_create)
                       THEN "done" ELSE "checking"]

\* Command.handle up to the creation loop.
StartRun(p, account_name, year, month, payout_threshold, payout_cutoff_day, dry_run) ==
    /\ runs[p].pc = "idle"
    /\ \A q \in 1..(p - 1) : runs[q].pc # "idle"
    /\ \E account \in {AccountByName(account_name)} :
       \E threshold_cents \in {IntOfFloatTimes100(payout_threshold)} :
       \E charges \in {MonthCharges(transactions, account.account_id, year, month)} :
       \E sim \in {Simulate(EmptySimulation, charges, year, month, threshold_cents,
                            payout_cutoff_day)} :
           /\ runs' = [q \in RunSlots |->
                  IF q = p
                  THEN [NoRun EXCEPT
                           !.pc = IF \/ account = NoAccount
                                     \/ charges = <<>>
                                     \/ dry_run
                                     \/ sim.payouts_to_create = <<>>
                                  THEN "done" ELSE "checking",
                           !.account = account.account_id, !.year = year, !.month = month,
                           !.threshold_cents = threshold_cents,
                           !.payout_cutoff_day = payout_cutoff_day, !.dry_run = dry_run,
                           !.payouts_to_create = sim.payouts_to_create, !.index = 1,
                           !.store = transactions,
                           !.overlap = \E r \in RunSlots : InCreationLoop(runs[r])]
                  ELSE IF InCreationLoop(runs[q]) THEN [runs[q] EXCEPT !.overlap = TRUE]
                  ELSE runs[q]]
           /\ last_op' = "calculate_payouts"
           /\ UNCHANGED <<transactions, statements, statement_run, payout_run, calls, view_run>>

\* if Transaction.objects.filter(stripe_id=payout_id).exists(): skip, continue
RunCheckExists(p) ==
    /\ runs[p].pc = "checking"
    /\ \E payout_id \in {PayoutId(runs[p].year, runs[p].month, runs[p].account,
                             runs[p].payouts_to_create[runs[p].index].number)} :
           runs' = [runs EXCEPT ![p] =
               IF AlreadyExists(transactions, payout_id)
               THEN NextPayout([runs[p] EXCEPT !.skipped = Append(@, payout_id)])
               ELSE [runs[p] EXCEPT !.pc = "creating"]]
    /\ last_op' = "calculate_payouts"
    /\ UNCHANGED <<transactions, statements, statement_run, payout_run, calls, view_run>>

\* Transaction.objects.create(...): one INSERT.  stripe_id is unique: the
\* insert of an identifier in use raises IntegrityError, which nothing catches.
RunCreate(p) ==
    /\ runs[p].pc = "creating"
    /\ \E row \in {PayoutTransaction(runs[p].payouts_to_create[runs[p].index],
                                     runs[p].account, runs[p].year, runs[p].month)} :
           IF StripeIdExists(transactions, row.stripe_id)
           THEN /\ transactions' = transactions
                /\ runs' = [runs EXCEPT ![p].pc = "raised"]
           ELSE /\ transactions' = Append(transactions, row)
                /\ runs' = [runs EXCEPT ![p] =
                       NextPayout([runs[p] EXCEPT !.created = Append(@, row.stripe_id)])]
    /\ last_op' = "calculate_payouts"
    /\ UNCHANGED <<statements, statement_run, payout_run, calls, view_run>>

\* The process is terminated between two statements of the creation loop.
KillRun(p) ==
    /\ InCreationLoop(runs[p])
    /\ runs' = [runs EXCEPT ![p].pc = "killed"]
    /\ UNCHANGED <<transactions, statements, statement_run, payout_run, last_op, calls, view_run>>

\* ------------------------------------------------------------------ statement page
\* views.generate_statement, database path: the CSV service it tries first is
\* not installed with the application, the import fails and the view falls
\* back to the tables.  The page shows every amount divided by 100; the
\* records here keep the cents.
\* account = get_object_or_404(StripeAccount, id=account_id) when the request
\* names an account; no account parameter, no account.
NoAccountParam == ""

AccountById(account_id) ==
    IF \E a \in StripeAccounts : a.account_id = account_id
    THEN CHOOSE a \in StripeAccounts : a.account_id = account_id
    ELSE NoAccount

\* Transaction rows of the month, of the account if there is one, ascending
\* by stripe_created.
ViewTransactions(rows, account_id, year, month) ==
    OrderByCreated(SelectSeq(rows, LAMBDA t :
        /\ t.stripe_created >= StartDate(year, month)
        /\ t.stripe_created <= EndDate(year, month)
        /\ (account_id # NoAccountParam => t.account = account_id)))

\* closing_balance of the first MonthlyStatement of the month before, of the
\* account if there is one; 0 without such a row.
ViewOpeningBalance(rows, account_id, year, month) ==
    LET prev == PreviousPeriod(year, month)
        found == SelectSeq(rows, LAMBDA s :
                     /\ s.year = prev[1]
                     /\ s.month = prev[2]
                     /\ (account_id # NoAccountParam => s.account = account_id))
    IN  IF found = <<>> THEN 0 ELSE found[1].closing_balance

\* The line of the transaction itself; a transaction that is neither a
\* succeeded charge, a refund nor a payout gets no line.
ViewPrimaryLines(txn, running_balance) ==
    IF txn.type = "charge" /\ txn.status = "succeeded"
    THEN <<Line("Gross Payment", txn.amount, 0, running_balance + txn.amount, txn.stripe_id)>>
    ELSE IF txn.type = "refund"
    THEN <<Line("Refund", 0, txn.amount, running_balance - txn.amount, txn.stripe_id)>>
    ELSE IF txn.type = "payout"
    THEN <<Line("Payout", 0, txn.amount, running_balance - txn.amount, txn.stripe_id)>>
    ELSE <<>>

\* ViewFeeLines that shows a fee for succeeded charges only.
ViewFeeLinesOfCharges(txn, running_balance) ==
    IF txn.fee # 0 /\ txn.fee > 0 /\ txn.type = "charge" /\ txn.status = "succeeded"
    THEN <<Line("Processing Fee", 0, txn.fee, running_balance - txn.fee, txn.stripe_id)>>
    ELSE <<>>

\* if txn.fee and txn.fee > 0: the fee line.
ViewFeeLines(txn, running_balance) ==
    IF txn.fee # 0 /\ txn.fee > 0
    THEN <<Line("Processing Fee", 0, txn.fee, running_balance - txn.fee, txn.stripe_id)>>
    ELSE <<>>

EmptyViewLedger(opening_balance) ==
    [running_balance |-> opening_balance,
     total_charges |-> 0, total_refunds |-> 0, total_fees |-> 0, total_payouts |-> 0,
     statement_lines |-> <<Line("Opening Balance", 0, 0, opening_balance, <<>>)>>]

\* One pass of "for txn in transactions" of the view.
ViewLedgerStep(acc, txn) ==
    LET primary == ViewPrimaryLines(txn, acc.running_balance)
        balance == IF primary = <<>> THEN acc.running_balance ELSE primary[1].balance
        fees == ViewFeeLines(txn, balance)
        nature == IF primary = <<>> THEN "" ELSE primary[1].nature
    IN  [running_balance |-> IF fees = <<>> THEN balance ELSE fees[1].balance,
         total_charges |->
             acc.total_charges + (IF nature = "Gross Payment" THEN txn.amount ELSE 0),
         total_refunds |-> acc.total_refunds + (IF nature = "Refund" THEN txn.amount ELSE 0),
         total_fees |-> acc.total_fees + (IF fees = <<>> THEN 0 ELSE txn.fee),
         total_payouts |-> acc.total_payouts + (IF nature = "Payout" THEN txn.amount ELSE 0),
         statement_lines |-> acc.statement_lines \o primary \o fees]

RECURSIVE BuildViewLedger(_, _)
BuildViewLedger(acc, txns) ==
    IF txns = <<>> THEN acc
    ELSE BuildViewLedger(ViewLedgerStep(acc, Head(txns)), Tail(txns))

NoViewRun ==
    [account |-> "", year |-> 0, month |-> 0, found |-> FALSE,
     opening_balance |-> 0, closing_balance |-> 0, total_charges |-> 0,
     total_refunds |-> 0, total_fees |-> 0, total_payouts |-> 0,
     statement_lines |-> <<>>, transaction_count |-> 0]

\* views.generate_statement for a request ?year=&month=&account=: the context
\* it renders.  An account parameter that names no account ends in a 404.
ViewStatement(account_id, year, month) ==
    /\ \E opening_balance \in {ViewOpeningBalance(statements, account_id, year, month)} :
       \E txns \in {ViewTransactions(transactions, account_id, year, month)} :
       \E ledger \in {BuildViewLedger(EmptyViewLedger(opening_balance), txns)} :
           view_run' =
               IF account_id # NoAccountParam /\ AccountById(account_id) = NoAccount
               THEN [NoViewRun EXCEPT !.account = account_id, !.year = year, !.month = month]
               ELSE [account |-> account_id, year |-> year, month |-> month, found |-> TRUE,
                     opening_balance |-> opening_balance,
                     closing_balance |-> ledger.running_balance,
                     total_charges |-> ledger.total_charges,
                     total_refunds |-> ledger.total_refunds,
                     total_fees |-> ledger.total_fees,
                     total_payouts |-> ledger.total_payouts,
                     statement_lines |->
                         Append(ledger.statement_lines,
                                Line("Closing Balance", 0, 0, ledger.running_balance, <<>>)),
                     transaction_count |-> Len(ledger.statement_lines) + 1 - 2]
    /\ last_op' = "views.generate_statement"
    /\ UNCHANGED <<transactions, statements, statement_run, payout_run, calls, runs>>

\* ------------------------------------------------------------------ ingestion
\* Rows that came from the processor (import or admin), not from the simulator.
Ingested ==
    Cardinality({j \in 1..Len(transactions) : transactions[j].stripe_id[1] = "ch"})

\* The row Transaction.objects.create(...) inserts for a row of the CSV file.
ImportedTransaction(account_id, row) ==
    [stripe_id |-> row.id,
     account |-> account_id,
     amount |-> IntOfFloatTimes100(row.Amount),
     fee |-> IntOfFloatTimes100(row.Fee),
     status |-> IF row.Status = "paid" THEN "succeeded"
                ELSE IF row.Status = "canceled" THEN "canceled"
                ELSE IF row.Status = "" THEN "pending" ELSE row.Status,
     type |-> IF row.AmountRefunded > 0 THEN "refund" ELSE "charge",
     stripe_created |-> row.Created]

\* ImportInto as an upsert: a row whose identifier is in the table replaces
\* the record.
ImportIntoOverwriting(rows, account_id, row) ==
    IF StripeIdExists(rows, row.id)
    THEN [i \in 1..Len(rows) |->
             IF rows[i].stripe_id = row.id THEN ImportedTransaction(account_id, row)
             ELSE rows[i]]
    ELSE Append(rows, ImportedTransaction(account_id, row))

\* One pass of "for row in reader": a row whose identifier is in the table
\* is skipped, any other is inserted.
ImportInto(rows, account_id, row) ==
    IF StripeIdExists(rows, row.id) THEN rows
    ELSE Append(rows, ImportedTransaction(account_id, row))

\* The summary of an import of one row: "Imported: 1" or "Skipped: 1".
Imported == "import_stripe_csv: Imported"

Skipped == "import_stripe_csv: Skipped"

\* ImportRow that deletes the statements of the account it imports into.
ImportRowDroppingStatements(account_id, row, limit) ==
    /\ StripeIdExists(transactions, row.id) \/ Ingested < limit
    /\ transactions' = ImportInto(transactions, account_id, row)
    /\ last_op' = IF StripeIdExists(transactions, row.id) THEN Skipped ELSE Imported
    /\ statements' = SelectSeq(statements, LAMBDA s : s.account # account_id)
    /\ UNCHANGED <<statement_run, payout_run, calls, runs, view_run>>

\* import_stripe_csv: a CSV file of one row, for the target account.
ImportRow(account_id, row, limit) ==
    /\ StripeIdExists(transactions, row.id) \/ Ingested < limit
    /\ transactions' = ImportInto(transactions, account_id, row)
    /\ last_op' = IF StripeIdExists(transactions, row.id) THEN Skipped ELSE Imported
    /\ UNCHANGED <<statements, statement_run, payout_run, calls, runs, view_run>>

\* TransactionAdmin: a row added by hand; the form refuses a stripe_id in use.
AdminAddTransaction(txn) ==
    /\ ~StripeIdExists(transactions, txn.stripe_id)
    /\ Ingested < MaxTxns
    /\ transactions' = Append(transactions, txn)
    /\ last_op' = "admin"
    /\ UNCHANGED <<statements, statement_run, payout_run, calls, runs, view_run>>

\* MonthlyStatementAdmin, fieldset Reconciliation of the change form: a staff
\* user ticks is_reconciled, enters the time and the user, and writes in notes
\* the closing balance that was verified.
AdminReconcileStatement(i, reconciled_at, reconciled_by) ==
    /\ i \in 1..Len(statements)
    /\ statements' = [statements EXCEPT ![i].is_reconciled = TRUE,
                                        ![i].reconciled_at = reconciled_at,
                                        ![i].reconciled_by = reconciled_by,
                                        ![i].notes = <<"closing", statements[i].closing_balance>>]
    /\ last_op' = "admin"
    /\ UNCHANGED <<transactions, statement_run, payout_run, calls, runs, view_run>>

\* ------------------------------------------------------------------ inputs
\* Processor identifiers of the rows that arrive: the last one taken in (a row
\* that comes again) and the next one.
ArrivingIds == {<<"ch", i>> : i \in {Ingested, Ingested + 1} \ {0}}

\* Rows of the CSV file imported into account cgge: charges paid or failed,
\* with a fee, without one or with a fee refunded, and a refunded payment.
CsvRows ==
    [id : ArrivingIds, Amount : {100}, Fee : {-3, 0, 3}, Status : {"paid", "failed"},
     AmountRefunded : {0}, Created : {Tick(2025, 1, 1, 1)}]
    \cup
    [id : ArrivingIds, Amount : {40}, Fee : {3}, Status : {"paid"},
     AmountRefunded : {40}, Created : {Tick(2025, 2, 1, 0)}]

\* Rows added through the admin site: payouts and adjustments.
AdminTxns ==
    [stripe_id : ArrivingIds, account : {"cgge"}, amount : {40},
     fee : {0}, status : {"succeeded"}, type : {"payout", "adjustment"},
     stripe_created : {Tick(2025, 1, 1, 0)}]
    \cup
    [stripe_id : ArrivingIds, account : {"krystal_institute"}, amount : {40},
     fee : {0}, status : {"succeeded"}, type : {"payout"},
     stripe_created : {Tick(2025, 1, 1, 0)}]

\* (account, month, opening balance in hundredths) of a generate_monthly_statement call
StatementArgs ==
    {<<"CGGE Media", 1, 0>>, <<"CGGE Media", 1, 115>>, <<"cgge", 2, 0>>, <<"nobody", 1, 0>>}

\* ------------------------------------------------------------------ Spec
Init ==
    /\ transactions = <<>>
    /\ statements = <<>>
    /\ statement_run = NoStatementRun
    /\ payout_run = NoPayoutRun
    /\ last_op = ""
    /\ calls = 0
    /\ runs = [p \in RunSlots |-> NoRun]
    /\ view_run = NoViewRun

Next ==
    \/ \E row \in CsvRows : ImportRow("cgge", row, MaxTxns)
    \/ \E txn \in AdminTxns : AdminAddTransaction(txn)
    \/ \E a \in StatementArgs : GenerateStatement(a[1], 2025, a[2], a[3])

Spec == Init /\ [][Next]_vars

\* ------------------------------------------------------------------ SpecPayouts
\* Charges imported into account cgge: three of January (50 and 30 on day 1,
\* 40 on day 2), one with a fee, one that failed, one of February.
ChargeRows ==
    { [id |-> id, Amount |-> r[1], Fee |-> r[2], Status |-> r[3], AmountRefunded |-> 0,
       Created |-> r[4]] :
      id \in ArrivingIds,
      r \in { <<50, 0, "paid", Tick(2025, 1, 1, 0)>>,
              <<30, 0, "paid", Tick(2025, 1, 1, 1)>>,
              <<40, 0, "paid", Tick(2025, 1, 2, 0)>>,
              <<50, 3, "paid", Tick(2025, 1, 2, 0)>>,
              <<50, 0, "failed", Tick(2025, 1, 1, 0)>>,
              <<50, 0, "paid", Tick(2025, 2, 1, 0)>> } }

\* (account, month, threshold in hundredths, cutoff day or 0, dry run) of a
\* calculate_payouts call
PayoutArgs ==
    { <<"CGGE Media", 1, 90, 0, FALSE>>, <<"CGGE Media", 1, 90, 1, FALSE>>,
      <<"CGGE Media", 1, 90, 0, TRUE>>, <<"CGGE Media", 1, 50, 0, FALSE>> }

NextPayouts ==
    \/ \E row \in ChargeRows : ImportRow("cgge", row, MaxCharges)
    \/ \E a \in PayoutArgs : SimulatePayouts(a[1], 2025, a[2], a[3], a[4], a[5])

SpecPayouts == Init /\ [][NextPayouts]_vars

\* ------------------------------------------------------------------ SpecRuns
\* Charges of January imported into account cgge: 50 on day 1, 40 on day 2.
\* An import touches no row a creation loop reads or writes (the loop looks up
\* and inserts po_sim identifiers only), so the imports are taken between runs.
RunChargeRows ==
    { [id |-> id, Amount |-> r[1], Fee |-> 0, Status |-> "paid", AmountRefunded |-> 0,
       Created |-> r[2]] :
      id \in ArrivingIds,
      r \in { <<50, Tick(2025, 1, 1, 0)>>, <<40, Tick(2025, 1, 2, 0)>> } }

\* (account, month, threshold in hundredths, cutoff day or 0, dry run) of a run
RunArgs ==
    { <<"CGGE Media", 1, 30, 0, FALSE>>, <<"CGGE Media", 1, 90, 0, FALSE>>,
      <<"CGGE Media", 1, 30, 0, TRUE>> }

NextRuns ==
    \/ /\ \A p \in RunSlots : ~InCreationLoop(runs[p])
       /\ \E row \in RunChargeRows : ImportRow("cgge", row, MaxRunCharges)
    \/ \E p \in RunSlots, a \in RunArgs : StartRun(p, a[1], 2025, a[2], a[3], a[4], a[5])
    \/ \E p \in RunSlots : RunCheckExists(p)
    \/ \E p \in RunSlots : RunCreate(p)
    \/ \E p \in RunSlots : KillRun(p)

SpecRuns == Init /\ [][NextRuns]_vars

\* ------------------------------------------------------------------ SpecCommands
\* The three commands over two accounts and two months.  Charges of 50 on the
\* last day of January and on the first day of February.
CommandRows ==
    { [id |-> id, Amount |-> 50, Fee |-> 0, Status |-> "paid", AmountRefunded |-> 0,
       Created |-> c] :
      id \in ArrivingIds,
      c \in { Tick(2025, 1, DaysPerMonth, 0), Tick(2025, 2, 1, 0) } }

\* (account, month, opening balance in hundredths) of a generate_monthly_statement call
CommandStatementArgs ==
    { <<"CGGE Media", 1, 0>>, <<"CGGE Media", 2, 0>>, <<"Krystal Institute", 1, 0>>,
      <<"nobody", 1, 0>> }

\* (account, month, threshold in hundredths, cutoff day or 0, dry run) of a
\* calculate_payouts call
CommandPayoutArgs ==
    { <<"CGGE Media", 1, 50, 0, FALSE>>, <<"CGGE Media", 1, 50, 0, TRUE>>,
      <<"nobody", 1, 50, 0, FALSE>> }

NextCommands ==
    \/ \E a \in StripeAccounts, row \in CommandRows : ImportRow(a.account_id, row, MaxTxns)
    \/ \E a \in CommandStatementArgs : GenerateStatement(a[1], 2025, a[2], a[3])
    \/ \E a \in CommandPayoutArgs : SimulatePayouts(a[1], 2025, a[2], a[3], a[4], a[5])

SpecCommands == Init /\ [][NextCommands]_vars

\* ------------------------------------------------------------------ SpecChain
\* Months generated one after the other, each from the balance the command
\* printed for the month before.  First calls of an account's January, from
\* 0 or from 1.15.
ChainArgs == { <<"CGGE Media", 1, 0>>, <<"CGGE Media", 1, 115>> }

NextChain ==
    \/ \E row \in CsvRows : ImportRow("cgge", row, MaxTxns)
    \/ \E txn \in AdminTxns : AdminAddTransaction(txn)
    \/ \E a \in ChainArgs : GenerateStatement(a[1], 2025, a[2], a[3])
    \/ ChainStatement

SpecChain == Init /\ [][NextChain]_vars

\* ------------------------------------------------------------------ SpecReconcile
\* Statements of January of account cgge, generated, reconciled in the admin
\* site and generated again as transactions come in.
ReconcileArgs == { <<"CGGE Media", 1, 0>>, <<"CGGE Media", 1, 115>>, <<"CGGE Media", 2, 0>> }

\* Staff users who reconcile.
StaffUsers == {"staff"}

NextReconcile ==
    \/ \E row \in CsvRows : ImportRow("cgge", row, MaxTxns)
    \/ \E a \in ReconcileArgs : GenerateStatement(a[1], 2025, a[2], a[3])
    \/ \E i \in 1..Len(statements), u \in StaffUsers :
           AdminReconcileStatement(i, Tick(2025, 3, 1, 0), u)

SpecReconcile == Init /\ [][NextReconcile]_vars

\* ------------------------------------------------------------------ SpecSettled
\* calculate_payouts runs for January of account cgge, each followed to its
\* end, and the statement of that month.  Charges of the first day of the
\* month: 50 without a fee, 40 with a fee of 3.
SettledChargeRows ==
    { [id |-> id, Amount |-> r[1], Fee |-> r[2], Status |-> "paid", AmountRefunded |-> 0,
       Created |-> r[3]] :
      id \in ArrivingIds,
      r \in { <<50, 0, Tick(2025, 1, 1, 0)>>, <<40, 3, Tick(2025, 1, 1, 1)>> } }

\* (account, month, threshold in hundredths, cutoff day or 0, dry run) of a run
SettledRunArgs ==
    { <<"CGGE Media", 1, 90, 0, FALSE>>, <<"CGGE Media", 1, 50, 0, FALSE>> }

NextSettled ==
    \/ /\ \A p \in RunSlots : ~InCreationLoop(runs[p])
       /\ \E row \in SettledChargeRows : ImportRow("cgge", row, MaxRunCharges)
    \/ /\ \A p \in RunSlots : ~InCreationLoop(runs[p])
       /\ \E p \in RunSlots, a \in SettledRunArgs :
              StartRun(p, a[1], 2025, a[2], a[3], a[4], a[5])
    \/ \E p \in RunSlots : RunCheckExists(p)
    \/ \E p \in RunSlots : RunCreate(p)
    \/ /\ \A p \in RunSlots : ~InCreationLoop(runs[p])
       /\ GenerateStatement("CGGE Media", 2025, 1, 0)

SpecSettled == Init /\ [][NextSettled]_vars

\* ------------------------------------------------------------------ SpecView
\* The statement page next to the command: months generated one after the
\* other from the balance printed for the month before, and the page
\* requested for an account, for no account and for an unknown one.
ViewArgs ==
    { <<"cgge", 1>>, <<"cgge", 2>>, <<NoAccountParam, 1>>, <<"unknown", 1>> }

\* Rows that come in: the charges and the refund of the CSV file that carry
\* a fee, and payouts of account cgge added through the admin site.
ViewRows == {row \in CsvRows : row.Fee = 3}

ViewAdminTxns == {txn \in AdminTxns : txn.account = "cgge" /\ txn.type = "payout"}

NextView ==
    \/ \E row \in ViewRows : ImportRow("cgge", row, MaxTxns)
    \/ \E txn \in ViewAdminTxns : AdminAddTransaction(txn)
    \/ \E a \in ChainArgs : GenerateStatement(a[1], 2025, a[2], a[3])
    \/ ChainStatement
    \/ \E a \in ViewArgs : ViewStatement(a[1], 2025, a[2])

SpecView == Init /\ [][NextView]_vars

\* ------------------------------------------------------------------ properties
\* The MonthlyStatement rows of one (account, year, month).
StatementsOf(account_id, year, month) ==
    {i \in 1..Len(statements) :
        /\ statements[i].account = account_id
        /\ statements[i].year = year
        /\ statements[i].month = month}

\* The row the last generate_monthly_statement call saved.
SavedRow ==
    statements[CHOOSE i \in StatementsOf(statement_run.account, statement_run.year,
                                         statement_run.month) : TRUE]

TransactionOf(stripe_id) ==
    transactions[CHOOSE i \in 1..Len(transactions) : transactions[i].stripe_id = stripe_id]

IsPrimary(line) ==
    line.nature \notin {"Opening Balance", "Closing Balance", "Processing Fee"}

\* C1: every saved MonthlyStatement has closing_balance = opening_balance +
\* total_charges - total_fees - total_refunds - total_payouts, whatever the
\* types, statuses, amounts and fees of the month's transactions.
C1_BalanceInvariant ==
    \A i \in 1..Len(statements) :
        statements[i].closing_balance =
            statements[i].opening_balance + statements[i].total_charges
                - statements[i].total_fees - statements[i].total_refunds
                - statements[i].total_payouts

\* A statement saved from a non-zero opening balance over a charge with a
\* fee and a payout.
C1_Witness ==
    \E i \in 1..Len(statements) :
        /\ statements[i].opening_balance # 0
        /\ statements[i].total_charges > 0
        /\ statements[i].total_fees > 0
        /\ statements[i].total_payouts > 0

\* C3: a generate_monthly_statement call that repeats the call before it
\* (same account, year, month and opening balance, no command in between)
\* leaves the MonthlyStatement table as it was, one row for the key, and
\* prints the same ledger lines and closing balance.
C3_IdempotentStatement ==
    [][(/\ last_op' = "generate_monthly_statement"
        /\ calls' = calls + 1
        /\ statement_run'.repeat)
       => (/\ statements' = statements
           /\ Cardinality(StatementsOf(statement_run.account, statement_run.year,
                                       statement_run.month)) = 1
           /\ statement_run'.lines = statement_run.lines
           /\ statement_run'.closing_balance = statement_run.closing_balance
           /\ statement_run'.action = "Updated")]_vars

\* The second of two equal calls over a month with transactions has run.
C3_Witness ==
    /\ last_op = "generate_monthly_statement"
    /\ statement_run.found
    /\ statement_run.repeat
    /\ statement_run.action = "Updated"
    /\ statement_run.txn_count > 0
    /\ Len(statements) = 1
    /\ SavedRow.opening_balance # 0

\* C6: the opening balance of a generated statement is the saved
\* closing_balance of the same account's preceding month whenever that
\* statement exists.
C6_OpeningFromPriorClosing ==
    statement_run.found =>
        LET prev == PreviousPeriod(statement_run.year, statement_run.month)
            prior == StatementsOf(statement_run.account, prev[1], prev[2])
        IN  \A i \in prior : SavedRow.opening_balance = statements[i].closing_balance

\* C7: in the printed ledger every transaction with a non-zero fee has a
\* "Processing Fee" line with credit = fee right after its own line, and its
\* own line carries the gross amount as debit or credit.
C7_FeeSeparation ==
    statement_run.found =>
        \A i \in 1..Len(statement_run.lines) :
            LET line == statement_run.lines[i] IN
            (IsPrimary(line) /\ TransactionOf(line.stripe_id).fee # 0) =>
                /\ i + 1 <= Len(statement_run.lines)
                /\ statement_run.lines[i + 1].nature = "Processing Fee"
                /\ statement_run.lines[i + 1].credit = TransactionOf(line.stripe_id).fee
                /\ statement_run.lines[i + 1].stripe_id = line.stripe_id
                /\ line.debit + line.credit = TransactionOf(line.stripe_id).amount

\* C8: for a month without transactions the command saves a statement with
\* closing_balance = opening_balance and all four totals 0, and prints the
\* opening and the closing line only.
C8_EmptyPeriod ==
    (statement_run.found /\ statement_run.txn_count = 0) =>
        /\ Len(statement_run.lines) = 2
        /\ statement_run.lines[1].nature = "Opening Balance"
        /\ statement_run.lines[2].nature = "Closing Balance"
        /\ statement_run.lines[2].balance = statement_run.lines[1].balance
        /\ Cardinality(StatementsOf(statement_run.account, statement_run.year,
                                    statement_run.month)) = 1
        /\ SavedRow.closing_balance = SavedRow.opening_balance
        /\ SavedRow.opening_balance = statement_run.opening_balance
        /\ SavedRow.total_charges = 0
        /\ SavedRow.total_refunds = 0
        /\ SavedRow.total_fees = 0
        /\ SavedRow.total_payouts = 0

\* A statement carried forward over an empty month while the table holds
\* transactions of another month.
C8_Witness ==
    /\ statement_run.found
    /\ statement_run.txn_count = 0
    /\ statement_run.opening_balance # 0
    /\ Len(transactions) > 0

\* ---- payout simulation
\* Rows of the table with a given identifier.
RowsWithId(stripe_id) == {i \in 1..Len(transactions) : transactions[i].stripe_id = stripe_id}

\* Identifiers of the payouts the last calculate_payouts run scheduled.
ScheduledIds(run) ==
    [k \in 1..Len(run.payouts_to_create) |->
        PayoutId(run.year, run.month, run.account, run.payouts_to_create[k].number)]

\* Synthetic payouts of one account and month in a table.
SyntheticRows(rows, account_id, year, month) ==
    {i \in 1..Len(rows) :
        /\ rows[i].stripe_id[1] = "po_sim"
        /\ rows[i].stripe_id[2] = year
        /\ rows[i].stripe_id[3] = month
        /\ rows[i].stripe_id[4] = account_id}

IsPayoutCall == last_op' = "calculate_payouts" /\ calls' = calls + 1

\* C2: (a) a non-dry calculate_payouts run on a table holding no synthetic
\* payout of the account and month creates every payout it schedules;
\* (b) a non-dry run that repeats the run before it (same account, month,
\* threshold and cutoff, no command in between) schedules the same payouts,
\* creates none, reports every one as skipped and leaves each identifier in
\* the table exactly once.
C2_IdempotentPayouts ==
    [][/\ (/\ IsPayoutCall
           /\ payout_run'.found /\ ~payout_run'.dry_run
           /\ SyntheticRows(transactions, payout_run'.account, payout_run'.year,
                             payout_run'.month) = {})
          => (/\ payout_run'.created = ScheduledIds(payout_run')
              /\ payout_run'.skipped = <<>>
              /\ ~payout_run'.raised)
       /\ (IsPayoutCall /\ payout_run'.repeat /\ ~payout_run'.dry_run)
          => (/\ payout_run'.payouts_to_create = payout_run.payouts_to_create
              /\ payout_run'.created = <<>>
              /\ payout_run'.skipped = ScheduledIds(payout_run')
              /\ ~payout_run'.raised
              /\ transactions' = transactions
              /\ \A k \in 1..Len(payout_run'.payouts_to_create) :
                     Cardinality({i \in 1..Len(transactions') :
                         transactions'[i].stripe_id = ScheduledIds(payout_run')[k]}) = 1)
      ]_vars

\* The second of two runs has found both payouts of its schedule in the
\* table, with the amounts it computed.
C2_Witness ==
    /\ last_op = "calculate_payouts"
    /\ payout_run.repeat
    /\ ~payout_run.dry_run
    /\ payout_run.created = <<>>
    /\ Len(payout_run.payouts_to_create) >= 2
    /\ payout_run.skipped = ScheduledIds(payout_run)
    /\ Len(transactions) = payout_run.charges + Len(payout_run.payouts_to_create)
    /\ \A k \in 1..Len(payout_run.payouts_to_create) :
           \A i \in RowsWithId(ScheduledIds(payout_run)[k]) :
               transactions[i].amount = payout_run.payouts_to_create[k].amount

\* Balance carried into the charge after the i-th of the trace.
Carried(run, i) ==
    IF i = 0 \/ run.trace[i].decision = "PAYOUT" THEN 0 ELSE run.trace[i].balance

\* The printed passes are the month's succeeded charges of the account, each
\* once, in ascending order of stripe_created.
TraceCoversCharges(run) ==
    /\ \A i \in 1..Len(run.trace) :
           LET t == TransactionOf(run.trace[i].stripe_id) IN
           /\ t.type = "charge" /\ t.status = "succeeded" /\ t.account = run.account
           /\ t.stripe_created >= StartDate(run.year, run.month)
           /\ t.stripe_created <= EndDate(run.year, run.month)
           /\ run.trace[i].date = t.stripe_created
    /\ \A j \in 1..Len(transactions) :
           LET t == transactions[j] IN
           (/\ t.type = "charge" /\ t.status = "succeeded" /\ t.account = run.account
            /\ t.stripe_created >= StartDate(run.year, run.month)
            /\ t.stripe_created <= EndDate(run.year, run.month))
           => Cardinality({i \in 1..Len(run.trace) : run.trace[i].stripe_id = t.stripe_id}) = 1
    /\ \A i, j \in 1..Len(run.trace) : i < j => run.trace[i].date <= run.trace[j].date

\* Indices of the passes that scheduled a payout, in order.
PayoutPasses(run) == SelectSeq([i \in 1..Len(run.trace) |-> i],
                               LAMBDA i : run.trace[i].decision = "PAYOUT")

\* C4: without a cutoff a calculate_payouts run goes through the month's
\* succeeded charges in ascending order, starts from 0, adds amount and takes
\* off fee at each charge, schedules a payout exactly at the charges after
\* which the balance is >= threshold, for the whole balance, and restarts
\* from 0 after it.
C4_ThresholdCrossing ==
    (/\ last_op = "calculate_payouts"
     /\ payout_run.found /\ ~HasCutoff(payout_run.payout_cutoff_day)) =>
        /\ TraceCoversCharges(payout_run)
        /\ \A i \in 1..Len(payout_run.trace) :
               LET t == TransactionOf(payout_run.trace[i].stripe_id) IN
               /\ payout_run.trace[i].balance = Carried(payout_run, i - 1) + t.amount - t.fee
               /\ (payout_run.trace[i].decision = "PAYOUT")
                      <=> (payout_run.trace[i].balance >= payout_run.threshold_cents)
               /\ payout_run.trace[i].decision \in {"PAYOUT", ""}
        /\ Len(payout_run.payouts_to_create) = Len(PayoutPasses(payout_run))
        /\ \A k \in 1..Len(payout_run.payouts_to_create) :
               /\ payout_run.payouts_to_create[k].amount =
                      payout_run.trace[PayoutPasses(payout_run)[k]].balance
               /\ payout_run.payouts_to_create[k].number = k
        /\ payout_run.remaining_balance = Carried(payout_run, Len(payout_run.trace))

\* Charges of 50, 30 and 40 without fees, threshold 90, no cutoff: one payout
\* of 120 after the third charge, balance 0.
C4_Witness ==
    /\ last_op = "calculate_payouts"
    /\ payout_run.found /\ ~HasCutoff(payout_run.payout_cutoff_day)
    /\ payout_run.threshold_cents = 90
    /\ [i \in 1..Len(payout_run.trace) |-> payout_run.trace[i].amount] = <<50, 30, 40>>
    /\ \A i \in 1..Len(payout_run.trace) : payout_run.trace[i].fee = 0
    /\ Len(payout_run.payouts_to_create) = 1
    /\ payout_run.payouts_to_create[1].amount = 120
    /\ payout_run.trace[3].decision = "PAYOUT"
    /\ payout_run.remaining_balance = 0

\* C5: with a cutoff, a charge after the cutoff date that leaves the balance
\* >= threshold is reported as skipped; the balance stays and the next charge
\* adds to it; no payout is scheduled or created for that charge or for any
\* later one.
C5_CutoffHolds ==
    (/\ last_op = "calculate_payouts"
     /\ payout_run.found /\ HasCutoff(payout_run.payout_cutoff_day)) =>
        LET cutoff == PayoutCutoffDate(payout_run.year, payout_run.month,
                                       payout_run.payout_cutoff_day)
        IN  \A i \in 1..Len(payout_run.trace) :
                (/\ payout_run.trace[i].date > cutoff
                 /\ payout_run.trace[i].balance >= payout_run.threshold_cents)
                => /\ payout_run.trace[i].decision = "PAYOUT SKIPPED (after cutoff)"
                   /\ i < Len(payout_run.trace) =>
                          payout_run.trace[i + 1].balance =
                              payout_run.trace[i].balance + payout_run.trace[i + 1].amount
                                  - payout_run.trace[i + 1].fee
                   /\ i = Len(payout_run.trace) =>
                          payout_run.remaining_balance = payout_run.trace[i].balance
                   /\ \A j \in i..Len(payout_run.trace) :
                          /\ payout_run.trace[j].decision # "PAYOUT"
                          /\ \A k \in 1..Len(payout_run.payouts_to_create) :
                                 payout_run.payouts_to_create[k].date
                                     < payout_run.trace[j].date + TicksPerDay
                   /\ \A k \in 1..Len(payout_run.created) :
                          \A r \in RowsWithId(payout_run.created[k]) :
                              transactions[r].stripe_created
                                  < payout_run.trace[i].date + TicksPerDay

\* Charges of 50, 30 and 40, threshold 90, cutoff at the end of day 1, the
\* third charge on day 2: the crossing is reported as skipped, no payout is
\* scheduled, the table holds no synthetic payout, the balance left is 120.
C5_Witness ==
    /\ last_op = "calculate_payouts"
    /\ payout_run.found /\ payout_run.payout_cutoff_day = 1
    /\ payout_run.threshold_cents = 90
    /\ [i \in 1..Len(payout_run.trace) |-> payout_run.trace[i].amount] = <<50, 30, 40>>
    /\ payout_run.trace[3].decision = "PAYOUT SKIPPED (after cutoff)"
    /\ payout_run.payouts_to_create = <<>>
    /\ payout_run.remaining_balance = 120
    /\ SyntheticRows(transactions, "cgge", 2025, 1) = {}

\* ---- terminated and concurrent runs
\* The synthetic payouts of a run's account and month, in table order.
PayoutRows(rows, run) ==
    SelectSeq(rows, LAMBDA t :
        /\ t.stripe_id[1] = "po_sim"
        /\ t.stripe_id[2] = run.year
        /\ t.stripe_id[3] = run.month
        /\ t.stripe_id[4] = run.account)

\* The rows a run inserted.
WrittenBy(run) ==
    SelectSeq(transactions, LAMBDA t :
        \E i \in 1..Len(run.created) : run.created[i] = t.stripe_id)

\* The table the run would have left had it run alone to its end.
Uninterrupted(run) ==
    CreatePayouts(EmptyCreation(run.store), run.payouts_to_create,
                  run.account, run.year, run.month).rows

SameInputs(first, second) ==
    /\ second.account = first.account
    /\ second.year = first.year
    /\ second.month = first.month
    /\ second.threshold_cents = first.threshold_cents
    /\ second.payout_cutoff_day = first.payout_cutoff_day
    /\ second.dry_run = first.dry_run
    /\ second.store = first.store \o WrittenBy(first)

\* second is a re-run of the terminated run first: same arguments, started on
\* the table first read plus the rows first inserted, with no run beside it.
IsRerun(first, second) ==
    /\ first.pc = "killed"
    /\ second.pc \in {"done", "raised"}
    /\ ~second.overlap
    /\ SameInputs(first, second)

\* C9: when a non-dry calculate_payouts run was terminated after inserting a
\* prefix of its payouts and a re-run with the same inputs has ended, the re-run
\* has completed, every scheduled identifier is in the table exactly once with
\* the row the uninterrupted run would have inserted, and (no other run having
\* started) the synthetic payouts in the table are exactly those the
\* uninterrupted run would have left.
C9_RerunCompletesTerminatedRun ==
    \A p, q \in RunSlots :
        IsRerun(runs[p], runs[q])
        => /\ runs[q].pc = "done"
           /\ \A k \in 1..Len(runs[p].payouts_to_create) :
                  /\ Cardinality(RowsWithId(ScheduledIds(runs[p])[k])) = 1
                  /\ \E i \in RowsWithId(ScheduledIds(runs[p])[k]) :
                      \E j \in 1..Len(Uninterrupted(runs[p])) :
                          transactions[i] = Uninterrupted(runs[p])[j]
           /\ (\A r \in RunSlots \ {p, q} : runs[r].pc = "idle")
              => PayoutRows(transactions, runs[p]) = PayoutRows(Uninterrupted(runs[p]), runs[p])

\* A run killed after inserting the first of two payouts, and its re-run, which
\* skipped the first and inserted the second.
C9_Witness ==
    \E p, q \in RunSlots :
        /\ IsRerun(runs[p], runs[q])
        /\ Len(runs[p].payouts_to_create) = 2
        /\ Len(runs[p].created) = 1
        /\ runs[q].pc = "done"
        /\ Len(runs[q].skipped) = 1
        /\ Len(runs[q].created) = 1

\* C10: whatever the interleaving of the runs, no run raises, no synthetic
\* payout identifier is in the table twice, and when two non-dry runs of the
\* same account, month and parameters have both ended, both have completed and
\* every identifier they scheduled is in the table exactly once.
C10_ConcurrentRunsComplete ==
    /\ \A p \in RunSlots : runs[p].pc # "raised"
    /\ \A i, j \in 1..Len(transactions) :
           transactions[i].stripe_id = transactions[j].stripe_id => i = j
    /\ \A p, q \in RunSlots :
           (/\ p # q
            /\ runs[p].pc = "done" /\ runs[q].pc = "done"
            /\ ~runs[p].dry_run /\ ~runs[q].dry_run)
           => \A k \in 1..Len(runs[p].payouts_to_create) :
                  Cardinality(RowsWithId(ScheduledIds(runs[p])[k])) = 1

\* ---- commands over several accounts and months
IsStatementCall == last_op' = "generate_monthly_statement" /\ calls' = calls + 1

\* C12: a generate_monthly_statement or calculate_payouts call that names no
\* account of the StripeAccount table reports the account as not found and
\* leaves the MonthlyStatement and Transaction tables as they were.
C12_UnknownAccountWritesNothing ==
    [][/\ (/\ IsStatementCall
           /\ \A a \in StripeAccounts : statement_run'.account_name \notin {a.name, a.account_id})
          => (/\ ~statement_run'.found
              /\ statements' = statements
              /\ transactions' = transactions)
       /\ (/\ IsPayoutCall
           /\ \A a \in StripeAccounts : payout_run'.account_name # a.name)
          => (/\ ~payout_run'.found
              /\ statements' = statements
              /\ transactions' = transactions)
      ]_vars

\* Both commands were called for an unknown account over a table with a charge
\* that would have given a payout.
C12_Witness ==
    /\ statement_run.account_name = "nobody"
    /\ payout_run.account_name = "nobody"
    /\ ~statement_run.found /\ ~payout_run.found
    /\ statements = <<>>
    /\ \E i \in 1..Len(transactions) :
           transactions[i].account = "cgge" /\ transactions[i].stripe_created <= EndDate(2025, 1)

\* C13: a calculate_payouts call with dry_run leaves the Transaction table as
\* it was, and a dry run and a non-dry run on the same input (same account,
\* month, threshold and cutoff, one right after the other) print the same
\* schedule: the same payouts (amount, date, number), the same balance after
\* every charge and the same remaining balance.
C13_DryRunWritesNothing ==
    [][/\ (IsPayoutCall /\ payout_run'.dry_run)
          => (/\ transactions' = transactions
              /\ payout_run'.created = <<>>)
       /\ (IsPayoutCall /\ payout_run'.same_inputs
                        /\ payout_run'.dry_run # payout_run.dry_run)
          => (/\ payout_run'.payouts_to_create = payout_run.payouts_to_create
              /\ payout_run'.trace = payout_run.trace
              /\ payout_run'.remaining_balance = payout_run.remaining_balance)
      ]_vars

\* A non-dry run right after a dry run on the same input: the dry run left no
\* payout in the table, so the non-dry run created every payout of the schedule.
C13_Witness ==
    /\ last_op = "calculate_payouts"
    /\ payout_run.found /\ ~payout_run.dry_run
    /\ payout_run.same_inputs /\ ~payout_run.repeat
    /\ payout_run.payouts_to_create # <<>>
    /\ payout_run.created = ScheduledIds(payout_run)

\* ---- statements saved
RECURSIVE LineTotal(_, _)
\* Sum of the amounts of the printed lines of one nature.
LineTotal(lines, nature) ==
    IF lines = <<>> THEN 0
    ELSE (IF Head(lines).nature = nature THEN Head(lines).debit + Head(lines).credit ELSE 0)
             + LineTotal(Tail(lines), nature)

SameKey(row, account_id, year, month) ==
    row.account = account_id /\ row.year = year /\ row.month = month

\* C14: the MonthlyStatement table never holds two rows for one (account,
\* year, month); a generate_monthly_statement call leaves in the row of its
\* key the opening balance, closing balance and totals it computed and
\* printed, and changes no other row; no other command changes the table.
C14_OneStatementPerKey ==
    [][/\ \A i, j \in 1..Len(statements') :
              SameKey(statements'[i], statements'[j].account, statements'[j].year,
                      statements'[j].month) => i = j
       /\ (IsStatementCall /\ statement_run'.found)
          => (/\ \E i \in 1..Len(statements') :
                     /\ SameKey(statements'[i], statement_run'.account, statement_run'.year,
                                statement_run'.month)
                     /\ statements'[i].opening_balance = statement_run'.opening_balance
                     /\ statements'[i].closing_balance = statement_run'.closing_balance
                     /\ statements'[i].total_charges
                            = LineTotal(statement_run'.lines, "Gross Payment")
                     /\ statements'[i].total_fees
                            = LineTotal(statement_run'.lines, "Processing Fee")
                     /\ statements'[i].total_refunds = LineTotal(statement_run'.lines, "Refund")
                     /\ statements'[i].total_payouts = LineTotal(statement_run'.lines, "Payout")
              /\ \A i \in 1..Len(statements) :
                     ~SameKey(statements[i], statement_run'.account, statement_run'.year,
                              statement_run'.month)
                     => statements'[i] = statements[i])
       /\ ~(IsStatementCall /\ statement_run'.found) => statements' = statements
      ]_vars

\* A second call for a key, with another opening balance or after a change of
\* the Transaction table, has overwritten the row of the first.
C14_Witness ==
    /\ last_op = "generate_monthly_statement"
    /\ statement_run.found
    /\ statement_run.action = "Updated"
    /\ ~statement_run.repeat
    /\ statement_run.txn_count > 0
    /\ Len(statements) = 1
    /\ SavedRow.opening_balance = statement_run.opening_balance
    /\ SavedRow.opening_balance # 0

\* ---- ingestion
\* C15: importing a CSV row whose identifier is in the Transaction table is
\* reported as skipped and leaves the table as it was, whatever the fields of
\* the row: the record of that identifier stays the only one and keeps its
\* fields; and no import ever leaves two records with one identifier.
C15_ReingestIsNoop ==
    [][last_op' \in {Imported, Skipped}
       => /\ \A a \in StripeAccounts, row \in CommandRows :
                 (/\ StripeIdExists(transactions, row.id)
                  /\ ImportRow(a.account_id, row, MaxTxns))
                 => (/\ transactions' = transactions
                     /\ last_op' = Skipped
                     /\ Cardinality({i \in 1..Len(transactions') :
                                        transactions'[i].stripe_id = row.id}) = 1)
          /\ \A i, j \in 1..Len(transactions') :
                 transactions'[i].stripe_id = transactions'[j].stripe_id => i = j
      ]_vars

\* A row was imported a second time, into a table that holds charges of both
\* accounts and a synthetic payout (the CSV rows with the identifier kept
\* include rows of the other account and of the other month).
C15_Witness ==
    /\ last_op = Skipped
    /\ Ingested = MaxTxns
    /\ \E i, j \in 1..Len(transactions) : transactions[i].account # transactions[j].account
    /\ \E i \in 1..Len(transactions) : transactions[i].type = "payout"

\* ---- order of the ledger
\* Processor identifiers in ascending order: "ch..." before "po_sim...", then
\* by the numbers that follow.
IdBefore(a, b) ==
    IF a[1] # b[1] THEN a[1] = "ch"
    ELSE IF a[1] = "ch" THEN a[2] < b[2]
    ELSE \/ a[2] < b[2]
         \/ a[2] = b[2] /\ a[3] < b[3]
         \/ a[2] = b[2] /\ a[3] = b[3] /\ a[5] < b[5]

\* The identifiers of the transactions of the printed ledger, in line order.
LedgerOrder(lines) ==
    LET primary == SelectSeq(lines, IsPrimary)
    IN  [i \in 1..Len(primary) |-> primary[i].stripe_id]

\* C16: the printed ledger takes the transactions in ascending timestamp
\* order, and transactions with equal timestamps in ascending order of their
\* processor identifier.
C16_OrderedByTimestampThenId ==
    (last_op = "generate_monthly_statement" /\ statement_run.found) =>
        LET order == LedgerOrder(statement_run.lines) IN
        \A i \in 1..(Len(order) - 1) :
            \/ TransactionOf(order[i]).stripe_created
                   < TransactionOf(order[i + 1]).stripe_created
            \/ /\ TransactionOf(order[i]).stripe_created
                      = TransactionOf(order[i + 1]).stripe_created
               /\ IdBefore(order[i], order[i + 1])

\* ---- independence of accounts and months
\* What generate_monthly_statement computes for a key from a table, with
\* opening balance 0.
StatementFor(rows, account_id, year, month) ==
    StatementDefaults(0, BuildLedger(EmptyLedger(0),
                                     MonthTransactions(rows, account_id, year, month)))

\* The (account, month) keys of 2025 the commands are called for.
CommandKeys == {<<a.account_id, k[2]>> : a \in StripeAccounts, k \in CommandStatementArgs}

\* C17: a generate_monthly_statement or calculate_payouts call for an account
\* and month changes, for no other account and no other month, the totals and
\* closing balance generate_monthly_statement computes (same opening balance),
\* nor the statement saved for it.
C17_IndependentKeys ==
    [][\A key \in CommandKeys :
           (\/ /\ IsStatementCall /\ statement_run'.found
               /\ key # <<statement_run'.account, statement_run'.month>>
            \/ /\ IsPayoutCall /\ payout_run'.found
               /\ key # <<payout_run'.account, payout_run'.month>>)
           => /\ StatementFor(transactions', key[1], 2025, key[2])
                     = StatementFor(transactions, key[1], 2025, key[2])
              /\ \A i \in 1..Len(statements) :
                     SameKey(statements[i], key[1], 2025, key[2])
                     => statements'[i] = statements[i]
      ]_vars

\* ---- chained months
\* C18: when the --opening-balance of a call is the closing balance saved for
\* the month before, the opening_balance saved for the month is that closing
\* balance, cent for cent.
C18_ChainedOpeningIsExact ==
    (last_op = "generate_monthly_statement" /\ statement_run.found /\ statement_run.chained) =>
        LET prev == PreviousPeriod(statement_run.year, statement_run.month)
        IN  \E i \in StatementsOf(statement_run.account, prev[1], prev[2]) :
                SavedRow.opening_balance = statements[i].closing_balance

\* ---- classification
\* A charge that did not succeed.
IsUnsettledCharge(txn) == txn.type = "charge" /\ txn.status # "succeeded"

\* C19: the statement saved is the one the month would give without its
\* charges that did not succeed: they change none of the four totals and not
\* the closing balance, whatever their amount and fee.
C19_UnsettledChargesContributeNothing ==
    (last_op = "generate_monthly_statement" /\ statement_run.found) =>
        LET settled == SelectSeq(MonthTransactions(transactions, statement_run.account,
                                                   statement_run.year, statement_run.month),
                                 LAMBDA t : ~IsUnsettledCharge(t))
            without == StatementDefaults(statement_run.opening_balance,
                           BuildLedger(EmptyLedger(statement_run.opening_balance), settled))
        IN  /\ SavedRow.total_charges = without.total_charges
            /\ SavedRow.total_fees = without.total_fees
            /\ SavedRow.total_refunds = without.total_refunds
            /\ SavedRow.total_payouts = without.total_payouts
            /\ SavedRow.closing_balance = without.closing_balance

RECURSIVE SucceededChargeAmounts(_)
\* Sum of the amounts of the succeeded charges among txns.
SucceededChargeAmounts(txns) ==
    IF txns = <<>> THEN 0
    ELSE (IF Head(txns).type = "charge" /\ Head(txns).status = "succeeded"
          THEN Head(txns).amount ELSE 0) + SucceededChargeAmounts(Tail(txns))

\* C20: the printed ledger has one line of its own for every transaction of
\* the month, in the order read; for a succeeded charge it is a "Gross Payment"
\* line with debit = amount and the balance of the line before plus amount,
\* for a refund a "Refund" line with credit = amount and that balance minus
\* amount, for a payout a "Payout" line with credit = amount and that balance
\* minus amount; total_charges is the sum of the succeeded charges.
C20_PrimaryLineByType ==
    (last_op = "generate_monthly_statement" /\ statement_run.found) =>
        LET lines == statement_run.lines
            txns == MonthTransactions(transactions, statement_run.account,
                                      statement_run.year, statement_run.month)
        IN  /\ LedgerOrder(lines) = [i \in 1..Len(txns) |-> txns[i].stripe_id]
            /\ SavedRow.total_charges = SucceededChargeAmounts(txns)
            /\ \A i \in 2..Len(lines) :
                   IsPrimary(lines[i]) =>
                       LET txn == TransactionOf(lines[i].stripe_id)
                           before == lines[i - 1].balance
                       IN  /\ (txn.type = "charge" /\ txn.status = "succeeded")
                              => lines[i] = Line("Gross Payment", txn.amount, 0,
                                                 before + txn.amount, txn.stripe_id)
                           /\ txn.type = "refund"
                              => lines[i] = Line("Refund", 0, txn.amount,
                                                 before - txn.amount, txn.stripe_id)
                           /\ txn.type = "payout"
                              => lines[i] = Line("Payout", 0, txn.amount,
                                                 before - txn.amount, txn.stripe_id)

\* A ledger printed over a payout and a succeeded charge, from a non-zero
\* opening balance.
C20_Witness ==
    /\ last_op = "generate_monthly_statement"
    /\ statement_run.found
    /\ statement_run.opening_balance # 0
    /\ \E i, j \in 1..Len(statement_run.lines) :
           /\ statement_run.lines[i].nature = "Gross Payment"
           /\ statement_run.lines[j].nature = "Payout"

\* C21: in the ledger a generate_monthly_statement call prints, every line
\* after the opening line has balance = balance of the line before + its debit
\* - its credit (the first transaction line starts from the opening balance),
\* the closing balance reported is the balance of the last transaction line,
\* or the opening balance when there is none, and the row saved holds that
\* value as closing_balance.
C21_RunningBalanceChain ==
    (last_op = "generate_monthly_statement" /\ statement_run.found) =>
        LET lines == statement_run.lines IN
        /\ lines[1].balance = statement_run.opening_balance
        /\ \A i \in 2..Len(lines) :
               lines[i].balance = lines[i - 1].balance + lines[i].debit - lines[i].credit
        /\ statement_run.closing_balance = lines[Len(lines) - 1].balance
        /\ lines[Len(lines)].balance = statement_run.closing_balance
        /\ SavedRow.closing_balance = statement_run.closing_balance

\* A statement printed from a non-zero opening balance with a charge line
\* followed by its fee line.
C21_Witness ==
    /\ last_op = "generate_monthly_statement"
    /\ statement_run.found
    /\ statement_run.opening_balance # 0
    /\ \E i \in 2..Len(statement_run.lines) :
           /\ statement_run.lines[i].nature = "Processing Fee"
           /\ statement_run.lines[i - 1].nature = "Gross Payment"

\* C22: every row a calculate_payouts run inserts has type payout, status
\* succeeded, fee 0 and the account of the run; its amount is the balance
\* accumulated at the charge that triggered it and its timestamp is that
\* charge's timestamp plus one day.
C22_InsertedPayoutFields ==
    (last_op = "calculate_payouts" /\ payout_run.found) =>
        \A c \in 1..Len(payout_run.created) :
            LET row == TransactionOf(payout_run.created[c])
                pass == PayoutPasses(payout_run)[row.stripe_id[5]]
                charge == TransactionOf(payout_run.trace[pass].stripe_id)
            IN  /\ Cardinality(RowsWithId(payout_run.created[c])) = 1
                /\ row.type = "payout"
                /\ row.status = "succeeded"
                /\ row.fee = 0
                /\ row.account = payout_run.account
                /\ row.amount = payout_run.trace[pass].balance
                /\ row.stripe_created = charge.stripe_created + TicksPerDay

\* A run inserted a payout for a balance accumulated over more than the
\* triggering charge.
C22_Witness ==
    /\ last_op = "calculate_payouts"
    /\ payout_run.found
    /\ \E c \in 1..Len(payout_run.created) :
           LET row == TransactionOf(payout_run.created[c])
               pass == PayoutPasses(payout_run)[row.stripe_id[5]]
           IN  /\ pass > 1
               /\ row.amount > payout_run.trace[pass].amount

\* C23: generate_monthly_statement and calculate_payouts only append to the
\* Transaction table.  A generate_monthly_statement call leaves the table as
\* it was; a calculate_payouts call leaves every row that existed in its
\* place with all its fields, and every row it adds is a payout under a
\* po_sim identifier that was not in the table.
C23_AppendOnlyStore ==
    [][/\ IsStatementCall => transactions' = transactions
       /\ IsPayoutCall =>
              /\ Len(transactions') >= Len(transactions)
              /\ SubSeq(transactions', 1, Len(transactions)) = transactions
              /\ \A i \in (Len(transactions) + 1)..Len(transactions') :
                     /\ transactions'[i].type = "payout"
                     /\ transactions'[i].stripe_id[1] = "po_sim"
                     /\ ~StripeIdExists(transactions, transactions'[i].stripe_id)]_vars

\* A second calculate_payouts run, after a charge came in behind the first
\* run's payout, skipped that payout and added another.
C23_Witness ==
    /\ last_op = "calculate_payouts"
    /\ payout_run.skipped # <<>>
    /\ payout_run.created # <<>>
    /\ \E i, j \in 1..Len(transactions) :
           /\ i < j
           /\ transactions[i].type = "payout"
           /\ transactions[j].type = "charge"

\* C24: only generate_monthly_statement writes MonthlyStatement rows: a
\* calculate_payouts call, dry run or not, and an import of transactions
\* leave the MonthlyStatement table as it was.
C24_OnlyAggregatorWritesStatements ==
    [][(IsPayoutCall \/ last_op' \in {Imported, Skipped}) => statements' = statements]_vars

\* With a statement of the account saved, a calculate_payouts run has
\* inserted a payout for the month of that statement, and the saved row
\* still shows no payout.
C24_Witness ==
    /\ last_op = "calculate_payouts"
    /\ payout_run.created # <<>>
    /\ \E i \in 1..Len(statements) :
           /\ statements[i].account = payout_run.account
           /\ statements[i].year = payout_run.year
           /\ statements[i].month = payout_run.month
           /\ statements[i].total_charges > 0
           /\ statements[i].total_payouts = 0

RECURSIVE ScheduledTotal(_)
\* Sum of the amounts of a schedule of payouts.
ScheduledTotal(payouts) ==
    IF payouts = <<>> THEN 0 ELSE Head(payouts).amount + ScheduledTotal(Tail(payouts))

RECURSIVE NetTotal(_)
\* Sum of amount - fee over a sequence of transactions.
NetTotal(txns) ==
    IF txns = <<>> THEN 0 ELSE (Head(txns).amount - Head(txns).fee) + NetTotal(Tail(txns))

\* C25: in every calculate_payouts run, whatever the threshold and the
\* cutoff, the amounts of the payouts scheduled plus the balance left at the
\* end add up to the sum of amount - fee over the month's succeeded charges
\* of the account.
C25_ScheduleConservesValue ==
    (last_op = "calculate_payouts" /\ payout_run.found) =>
        ScheduledTotal(payout_run.payouts_to_create) + payout_run.remaining_balance
            = NetTotal(MonthCharges(transactions, payout_run.account, payout_run.year,
                                    payout_run.month))

\* A run with a cutoff scheduled a payout, held back a later one and ended
\* with a balance, over charges of which one had a fee.
C25_Witness ==
    /\ last_op = "calculate_payouts"
    /\ payout_run.found
    /\ HasCutoff(payout_run.payout_cutoff_day)
    /\ payout_run.payouts_to_create # <<>>
    /\ payout_run.remaining_balance > 0
    /\ \E i \in 1..Len(payout_run.trace) : payout_run.trace[i].fee # 0

RECURSIVE AmountTotal(_)
\* Sum of the amounts of a sequence of transactions.
AmountTotal(txns) ==
    IF txns = <<>> THEN 0 ELSE Head(txns).amount + AmountTotal(Tail(txns))

\* The synthetic payouts stored for one account and month, in table order.
StoredPayouts(rows, account_id, year, month) ==
    SelectSeq(rows, LAMBDA t :
        /\ t.stripe_id[1] = "po_sim"
        /\ t.stripe_id[2] = year
        /\ t.stripe_id[3] = month
        /\ t.stripe_id[4] = account_id)

\* C26: after any sequence of calculate_payouts runs and imports, the amounts
\* of the synthetic payouts stored for an account and month add up to no
\* more than the sum of amount - fee over the succeeded charges of that
\* account and month.
C26_PayoutsWithinCharges ==
    \A a \in StripeAccounts, month \in 1..2 :
        AmountTotal(StoredPayouts(transactions, a.account_id, 2025, month))
            <= NetTotal(MonthCharges(transactions, a.account_id, 2025, month))

\* The last command was a calculate_payouts run, not a dry run and without a
\* cutoff, over a month of the account that held succeeded charges only and
\* a table that held none of the account's synthetic payouts.
IsFirstPayoutRun ==
    /\ last_op = "calculate_payouts"
    /\ payout_run.found
    /\ ~payout_run.dry_run
    /\ ~HasCutoff(payout_run.payout_cutoff_day)
    /\ ~payout_run.raised
    /\ payout_run.skipped = <<>>
    /\ \A i \in 1..Len(transactions) :
           transactions[i].account = payout_run.account =>
               \/ transactions[i].stripe_id \in {payout_run.created[c] :
                                                     c \in 1..Len(payout_run.created)}
               \/ /\ transactions[i].type = "charge"
                  /\ transactions[i].status = "succeeded"

\* C27: a generate_monthly_statement call with opening balance 0 that comes
\* right after such a run, for the same account and month, saves
\* total_payouts = the sum of the payouts the run created and closing_balance
\* = the balance the run ended with.
C27_StatementAgreesWithSimulator ==
    [][(/\ IsFirstPayoutRun
        /\ IsStatementCall
        /\ statement_run'.found
        /\ statement_run'.account = payout_run.account
        /\ statement_run'.year = payout_run.year
        /\ statement_run'.month = payout_run.month
        /\ statement_run'.opening_balance = 0)
       => (/\ \A i \in 1..Len(statements') :
                  SameKey(statements'[i], payout_run.account, payout_run.year,
                          payout_run.month)
                  => statements'[i].total_payouts
                         = ScheduledTotal(payout_run.payouts_to_create)
           /\ statement_run'.closing_balance = payout_run.remaining_balance)]_vars

\* C28: a generate_monthly_statement call for a key that has a row changes,
\* in that row, opening_balance, closing_balance and the four totals only:
\* is_reconciled, reconciled_at, reconciled_by and notes of every row stay as
\* they were, also when the balances or totals saved differ from the ones
\* that were reconciled; no row is added and no other row changes.
C28_RegenerationKeepsReconciliation ==
    [][(/\ IsStatementCall
        /\ statement_run'.found
        /\ StatementsOf(statement_run'.account, statement_run'.year,
                        statement_run'.month) # {})
       => (/\ Len(statements') = Len(statements)
           /\ \A i \in 1..Len(statements) :
                  /\ statements'[i].is_reconciled = statements[i].is_reconciled
                  /\ statements'[i].reconciled_at = statements[i].reconciled_at
                  /\ statements'[i].reconciled_by = statements[i].reconciled_by
                  /\ statements'[i].notes = statements[i].notes
                  /\ statements'[i].account = statements[i].account
                  /\ statements'[i].year = statements[i].year
                  /\ statements'[i].month = statements[i].month
                  /\ ~SameKey(statements[i], statement_run'.account, statement_run'.year,
                              statement_run'.month) => statements'[i] = statements[i])]_vars

\* A reconciled statement was generated again and now holds a closing
\* balance other than the one written down at reconciliation.
C28_Witness ==
    /\ last_op = "generate_monthly_statement"
    /\ statement_run.found
    /\ statement_run.action = "Updated"
    /\ SavedRow.is_reconciled
    /\ SavedRow.reconciled_by \in StaffUsers
    /\ SavedRow.notes # NullText
    /\ SavedRow.notes[2] # SavedRow.closing_balance
    /\ SavedRow.closing_balance = statement_run.closing_balance

\* The month of the last generate_monthly_statement call holds, for the
\* account, succeeded charges with 0 <= fee <= amount and synthetic payouts
\* created for that account and month, and nothing else.
OnlyChargesAndOwnPayouts ==
    \A i \in 1..Len(transactions) :
        LET t == transactions[i] IN
        (/\ t.account = statement_run.account
         /\ t.stripe_created >= StartDate(statement_run.year, statement_run.month)
         /\ t.stripe_created <= EndDate(statement_run.year, statement_run.month))
        => \/ /\ t.type = "charge" /\ t.status = "succeeded"
              /\ 0 <= t.fee /\ t.fee <= t.amount
           \/ /\ t.type = "payout"
              /\ t.stripe_id = PayoutId(statement_run.year, statement_run.month,
                                        statement_run.account, t.stripe_id[5])

\* C29: a statement generated from opening balance 0 over a month that holds
\* only succeeded charges with 0 <= fee <= amount and the synthetic payouts
\* created for that month shows a balance >= 0 on every line.
C29_BalanceNeverNegative ==
    (/\ last_op = "generate_monthly_statement"
     /\ statement_run.found
     /\ statement_run.opening_balance = 0
     /\ OnlyChargesAndOwnPayouts)
    => \A i \in 1..Len(statement_run.lines) : statement_run.lines[i].balance >= 0

\* C30: the statement page requested right after a generate_monthly_statement
\* call, for the same account and month and starting from the same opening
\* balance, shows the total_charges, total_refunds, total_fees, total_payouts
\* and closing balance that the command saved.
C30_ViewAgreesWithCommand ==
    [][(/\ last_op = "generate_monthly_statement"
        /\ statement_run.found
        /\ last_op' = "views.generate_statement"
        /\ view_run'.found
        /\ view_run'.account = statement_run.account
        /\ view_run'.year = statement_run.year
        /\ view_run'.month = statement_run.month
        /\ view_run'.opening_balance = statement_run.opening_balance)
       => (/\ view_run'.total_charges = SavedRow.total_charges
           /\ view_run'.total_refunds = SavedRow.total_refunds
           /\ view_run'.total_fees = SavedRow.total_fees
           /\ view_run'.total_payouts = SavedRow.total_payouts
           /\ view_run'.closing_balance = SavedRow.closing_balance
           /\ view_run'.closing_balance = statement_run.closing_balance)]_vars

\* The page of a month was rendered after the command, both from the same
\* non-zero opening balance, over a refund that carries a fee.
C30_Witness ==
    /\ last_op = "views.generate_statement"
    /\ view_run.found
    /\ statement_run.found
    /\ view_run.account = statement_run.account
    /\ view_run.year = statement_run.year
    /\ view_run.month = statement_run.month
    /\ view_run.opening_balance = statement_run.opening_balance
    /\ view_run.opening_balance # 0
    /\ view_run.total_refunds > 0
    /\ view_run.total_fees > 0
    /\ view_run.closing_balance = statement_run.closing_balance

====
